---------------------------- MODULE Spec2Model ----------------------------
(***************************************************************************)
(* Verification model of three programs of the repository:                 *)
(*   - runtime/lib/divsi3.c     : __divsi3, the signed division wrapper     *)
(*   - modti3_test.c            : the conformance harness of __modti3       *)
(*   - tools/mcld/Main.cpp      : the mcld linker driver                    *)
(*                                                                         *)
(* Machine integers are modelled as TLA+ integers reduced to their width   *)
(* after every operation.  The native word has WordBits bits and the       *)
(* double-width integer 2 * WordBits bits; the widths are scaled down      *)
(* (keeping them even, as 32, 64 and 128 are) so that all operand pairs    *)
(* can be enumerated.                                                      *)
(***************************************************************************)
EXTENDS Integers, Sequences, FiniteSets, TLC

VARIABLES
    \* ---- __divsi3 / __modsi3 call ----
    a, b,          \* the operands of the call
    quot,          \* value returned by __divsi3(a, b)
    rem,           \* value returned by __modsi3(a, b)
    dpc,           \* "idle" | "call" | "divided" | "done"
    \* ---- __modti3 call ----
    ta, tb,        \* double-width operands
    trem,          \* value returned by __modti3(ta, tb)
    wpc,           \* "idle" | "call" | "done"
    \* ---- modti3_test main ----
    idx,           \* index of the next table case main evaluates
    x,             \* the value __modti3 returned to the last test__modti3
    printed,       \* the table indexes a diagnostic line was printed for
    evaluated,     \* the table indexes test__modti3 was called for
    exit_status,   \* main's return value, -1 while it runs
    hpc,           \* "idle" | "run" | "exit"
    \* ---- mcld main ----
    argv,          \* command line: position -> "file" | "lib" | "other"
    OptOutputFilename,  \* value of -o ("" when absent)
    OutputFilename,     \* result of DetermineOutputFilename
    file_it, lib_it,    \* iterators of PrepareInputOutput (1-based indexes)
    calls,         \* the Linker operations invoked so far, with their results
    ret,           \* main's return value: "none" | "EXIT_SUCCESS" | "EXIT_FAILURE"
    mpc            \* "idle" | "start" | "config" | "setOutput" | "inputs" | "link" | "exit"

divVars  == <<a, b, quot, rem, dpc>>
wideVars == <<ta, tb, trem, wpc>>
testVars == <<idx, x, printed, evaluated, exit_status, hpc>>
mcldVars == <<argv, OptOutputFilename, OutputFilename, file_it, lib_it, calls, ret, mpc>>
vars     == <<divVars, wideVars, testVars, mcldVars>>

---------------------------------------------------------------------------
(* Bounds of the model *)

\* Half the number of bits of the native word (the word width stays even).
HalfWordBits == 2

\* How far from 0, from +-2^(WordBits-1) and from the extreme double-width
\* values the double-width operands are drawn.
Near == 3

\* Number of command line positions of an mcld run.
MaxPos == 4

---------------------------------------------------------------------------
(* Machine arithmetic *)

\* sizeof(si_int) * CHAR_BIT
WordBits == 2 * HalfWordBits

\* sizeof(ti_int) * CHAR_BIT; assumption_1: sizeof(ti_int) == 2*sizeof(di_int)
TwordBits == 2 * WordBits

\* The value of an unsigned `bits`-wide integer holding x (wrap modulo 2^bits).
ToUnsigned(v, bits) == v % (2 ^ bits)

\* The value of a signed two's-complement `bits`-wide integer holding x.
ToSigned(v, bits) ==
    LET u == v % (2 ^ bits)
    IN  IF u >= 2 ^ (bits - 1) THEN u - 2 ^ bits ELSE u

\* Bitwise exclusive or of two non-negative integers on n bits.
RECURSIVE BitXor(_, _, _)
BitXor(u, v, n) ==
    IF n = 0 THEN 0
    ELSE (((u % 2) + (v % 2)) % 2) + (2 * BitXor(u \div 2, v \div 2, n - 1))

\* u ^ v on signed `bits`-wide integers.
XorSigned(u, v, bits) ==
    ToSigned(BitXor(ToUnsigned(u, bits), ToUnsigned(v, bits), bits), bits)

\* u >> n on a signed integer: the arithmetic shift (floor division).
AShr(u, n) == u \div (2 ^ n)

\* The values of a signed `bits`-wide integer.
SignedRange(bits) == (-(2 ^ (bits - 1))) .. (2 ^ (bits - 1) - 1)

si_int == SignedRange(WordBits)
ti_int == SignedRange(TwordBits)

\* The most negative native word and double-width integer.
SI_MIN == -(2 ^ (WordBits - 1))
TI_MIN == -(2 ^ (TwordBits - 1))

---------------------------------------------------------------------------
(* runtime/lib: __udivsi3, __divsi3, __modsi3 *)

\* su_int __udivsi3(su_int n, su_int d): the truncated quotient n / d.
udivsi3(n, d) == n \div d

\* A __divsi3 that forgets the sign of the divisor in the quotient's sign.
divsi3_DividendSignOnly(a0, b0) ==
    LET bits_in_word_m1 == WordBits - 1
        s_a == AShr(a0, bits_in_word_m1)
        s_b == AShr(b0, bits_in_word_m1)
        a1  == ToSigned(XorSigned(a0, s_a, WordBits) - s_a, WordBits)
        b1  == ToSigned(XorSigned(b0, s_b, WordBits) - s_b, WordBits)
        uq  == udivsi3(ToUnsigned(a1, WordBits), ToUnsigned(b1, WordBits))
        us  == ToUnsigned(s_a, WordBits)
    IN  ToSigned(BitXor(uq, us, WordBits) - us, WordBits)

\* si_int __divsi3(si_int a, si_int b).  The signed subtractions of lines 29
\* and 30 overflow for the most negative word; they are reduced to the word
\* as the two's-complement subtract instruction does.  Line 32 is unsigned
\* arithmetic (su_int ^ si_int), converted to si_int by the return.
divsi3(a0, b0) ==
    LET bits_in_word_m1 == WordBits - 1
        s_a == AShr(a0, bits_in_word_m1)                   \* a < 0 ? -1 : 0
        s_b == AShr(b0, bits_in_word_m1)                   \* b < 0 ? -1 : 0
        a1  == ToSigned(XorSigned(a0, s_a, WordBits) - s_a, WordBits)
        b1  == ToSigned(XorSigned(b0, s_b, WordBits) - s_b, WordBits)
        s_q == XorSigned(s_a, s_b, WordBits)               \* sign of quotient
        uq  == udivsi3(ToUnsigned(a1, WordBits), ToUnsigned(b1, WordBits))
        us  == ToUnsigned(s_q, WordBits)
    IN  ToSigned(BitXor(uq, us, WordBits) - us, WordBits)

\* si_int __modsi3(si_int a, si_int b): a - (a / b) * b in word arithmetic.
modsi3(a0, b0) == ToSigned(a0 - divsi3(a0, b0) * b0, WordBits)

---------------------------------------------------------------------------
(* Idle values of the variables a specification does not use *)

IdleDiv  == a = 0 /\ b = 1 /\ quot = 0 /\ rem = 0 /\ dpc = "idle"
IdleWide == ta = 0 /\ tb = 1 /\ trem = 0 /\ wpc = "idle"
IdleTest == idx = 0 /\ x = 0 /\ printed = <<>> /\ evaluated = <<>>
            /\ exit_status = -1 /\ hpc = "idle"
IdleMcld == argv = <<>> /\ OptOutputFilename = "" /\ OutputFilename = ""
            /\ file_it = 0 /\ lib_it = 0 /\ calls = <<>> /\ ret = "none"
            /\ mpc = "idle"

---------------------------------------------------------------------------
(* A caller of __divsi3 and __modsi3: every operand pair with b # 0 *)

InitDiv ==
    /\ a \in si_int
    /\ b \in si_int \ {0}
    /\ quot = 0 /\ rem = 0
    /\ dpc = "call"
    /\ IdleWide /\ IdleTest /\ IdleMcld

Call_divsi3 ==
    /\ dpc = "call"
    /\ quot' = divsi3(a, b)
    /\ dpc' = "divided"
    /\ UNCHANGED <<a, b, rem, wideVars, testVars, mcldVars>>

Call_modsi3 ==
    /\ dpc = "divided"
    /\ rem' = modsi3(a, b)
    /\ dpc' = "done"
    /\ UNCHANGED <<a, b, quot, wideVars, testVars, mcldVars>>

NextDiv == Call_divsi3 \/ Call_modsi3

SpecDiv == InitDiv /\ [][NextDiv]_vars

---------------------------------------------------------------------------
(* Reference arithmetic the claims are stated with *)

Abs(v) == IF v < 0 THEN -v ELSE v

\* The integer quotient n / d rounded toward zero.
TruncQuot(n, d) ==
    LET m == Abs(n) \div Abs(d)
    IN  IF (n < 0) # (d < 0) THEN -m ELSE m

\* Negation in wrapping arithmetic of the given width.
NegWrap(v, bits) == ToSigned(-v, bits)

Divided == dpc \in {"divided", "done"}

---------------------------------------------------------------------------
(* Claims about __divsi3 and __modsi3 *)

\* C1: for every a and every nonzero b, __divsi3(a, b) is the quotient a / b
\* rounded toward zero, reduced to the word by two's-complement wrap-around;
\* for a = MIN it is the exact quotient for every b other than -1, and for
\* b = -1 it is MIN.
C1_TruncatedQuotient ==
    Divided =>
        /\ quot = ToSigned(TruncQuot(a, b), WordBits)
        /\ (a = SI_MIN /\ b # -1) => quot = TruncQuot(a, b)
        /\ (a = SI_MIN /\ b = -1) => quot = SI_MIN

C1_Witness == dpc = "divided" /\ a = SI_MIN /\ b = -1 /\ quot = SI_MIN

\* C2: for every a and every nonzero b, in word arithmetic
\* divide(a,b) * b + modulo(a,b) = a, modulo(a,b) is zero or has the sign of
\* a, and |modulo(a,b)| < |b|.
C2_DivisionIdentity ==
    dpc = "done" =>
        /\ ToSigned(quot * b + rem, WordBits) = a
        /\ (rem = 0 \/ ((rem < 0) <=> (a < 0)))
        /\ Abs(rem) < Abs(b)

C2_Witness == dpc = "done" /\ a = -5 /\ b = 3 /\ quot = -1 /\ rem = -2

\* C3: for every a other than MIN and every nonzero b (MIN included),
\* divide(a,b) = -divide(-a,b) = -divide(a,-b) = divide(-a,-b), negation
\* taken in wrapping word arithmetic.
C3_NegationSymmetry ==
    (Divided /\ a # SI_MIN) =>
        LET na == NegWrap(a, WordBits)
            nb == NegWrap(b, WordBits)
        IN  /\ quot = NegWrap(divsi3(na, b), WordBits)
            /\ quot = NegWrap(divsi3(a, nb), WordBits)
            /\ quot = divsi3(na, nb)

C3_Witness == dpc = "divided" /\ a = 7 /\ b = -2 /\ quot = -3

\* C4 as stated: the quotient is negative if and only if exactly one of a, b
\* is negative.
C4_NegativeIffOneNegative ==
    Divided => ((quot < 0) <=> ((a < 0) # (b < 0)))

\* C4 as amended: the quotient is negative if and only if exactly one of
\* a, b is negative and |a| >= |b| (the quotient is zero otherwise), or
\* (a, b) = (MIN, -1), whose quotient wraps to MIN.
C4_NegativeIffOneNegativeAndNonzero ==
    Divided =>
        ((quot < 0) <=>
            \/ ((a < 0) # (b < 0)) /\ Abs(a) >= Abs(b)
            \/ a = SI_MIN /\ b = -1)

C4_Witness == dpc = "divided" /\ a = 1 /\ b = -3 /\ quot = 0

\* C6 as stated: modulo(MIN, 1) = 0, modulo(MIN, 2) = 0, modulo(MIN, 3) = 2
\* and modulo(MIN, -3) = 2.
C6_MinModuloPositive ==
    (dpc = "done" /\ a = SI_MIN) =>
        /\ b \in {1, 2} => rem = 0
        /\ b \in {3, -3} => rem = 2

\* C6 as amended: modulo(MIN, 1) = 0, modulo(MIN, 2) = 0, modulo(MIN, 3) = -2
\* and modulo(MIN, -3) = -2 (the remainder has the sign of the dividend).
C6_MinModuloNegative ==
    (dpc = "done" /\ a = SI_MIN) =>
        /\ b \in {1, 2} => rem = 0
        /\ b \in {3, -3} => rem = -2

C6_Witness == dpc = "done" /\ a = SI_MIN /\ b = -3 /\ rem = -2

---------------------------------------------------------------------------
(* runtime/lib: the double-width integer, __udivmodti4, __modti3 *)

\* make_ti(h, l): the double-width integer {high = h, low = l}, of value
\* high * 2^W + low with low read as unsigned.
make_ti(h, l) ==
    ToSigned(ToSigned(h, WordBits) * (2 ^ WordBits) + ToUnsigned(l, WordBits),
             TwordBits)

\* Bit i of the non-negative integer n.
Bit(n, i) == (n \div (2 ^ i)) % 2

\* Restoring long division of the unsigned n by d, bits i .. 0 left to do,
\* with the quotient q and the remainder accumulator r built so far.
RECURSIVE LongDivision(_, _, _, _, _)
LongDivision(n, d, i, q, r) ==
    IF i < 0 THEN [quotient |-> q, remainder |-> r]
    ELSE LET shifted == 2 * r + Bit(n, i)
         IN  IF shifted >= d
             THEN LongDivision(n, d, i - 1, q + 2 ^ i, shifted - d)
             ELSE LongDivision(n, d, i - 1, q, shifted)

\* tu_int __udivmodti4(tu_int a, tu_int b, tu_int* rem)
udivmodti4(n, d) == LongDivision(n, d, TwordBits - 1, 0, 0)

\* ti_int __modti3(ti_int a, ti_int b): the sign-mask idiom of __divsi3 at
\* double width, the remainder taking the sign of the dividend.
modti3(a0, b0) ==
    LET bits_in_tword_m1 == TwordBits - 1
        s_b == AShr(b0, bits_in_tword_m1)
        b1  == ToSigned(XorSigned(b0, s_b, TwordBits) - s_b, TwordBits)
        s_a == AShr(a0, bits_in_tword_m1)
        a1  == ToSigned(XorSigned(a0, s_a, TwordBits) - s_a, TwordBits)
        ur  == udivmodti4(ToUnsigned(a1, TwordBits),
                          ToUnsigned(b1, TwordBits)).remainder
    IN  ToSigned(XorSigned(ur, s_a, TwordBits) - s_a, TwordBits)

---------------------------------------------------------------------------
(* modti3_test.c *)

\* The literal 0x8000000000000000LL: it does not fit the signed word, so it
\* is the positive value 2^(W-1) when converted to ti_int, and the most
\* negative word when passed as the high word of make_ti.
HighBit == 2 ^ (WordBits - 1)

\* A table in which the most negative double-width value is expected to
\* leave the remainder 2 when divided by 3 and by -3.
Cases_PositiveRemainderOfMin ==
    << <<0, 1, 0>>, <<0, -1, 0>>,
       <<5, 3, 2>>, <<5, -3, 2>>, <<-5, 3, -2>>, <<-5, -3, -2>>,
       <<HighBit, 1, 0>>, <<HighBit, -1, 0>>,
       <<HighBit, 2, 0>>, <<HighBit, -2, 0>>,
       <<HighBit, 3, 2>>, <<HighBit, -3, 2>>,
       <<make_ti(HighBit, 0), 1, 0>>, <<make_ti(HighBit, 0), -1, 0>>,
       <<make_ti(HighBit, 0), 2, 0>>, <<make_ti(HighBit, 0), -2, 0>>,
       <<make_ti(HighBit, 0), 3, 2>>, <<make_ti(HighBit, 0), -3, 2>> >>

\* The (a, b, expected) cases of main, in the order main evaluates them.
Cases ==
    << <<0, 1, 0>>, <<0, -1, 0>>,
       <<5, 3, 2>>, <<5, -3, 2>>, <<-5, 3, -2>>, <<-5, -3, -2>>,
       <<HighBit, 1, 0>>, <<HighBit, -1, 0>>,
       <<HighBit, 2, 0>>, <<HighBit, -2, 0>>,
       <<HighBit, 3, 2>>, <<HighBit, -3, 2>>,
       <<make_ti(HighBit, 0), 1, 0>>, <<make_ti(HighBit, 0), -1, 0>>,
       <<make_ti(HighBit, 0), 2, 0>>, <<make_ti(HighBit, 0), -2, 0>>,
       <<make_ti(HighBit, 0), 3, -2>>, <<make_ti(HighBit, 0), -3, -2>> >>

\* The expected values the table holds for the operands (n, d).
Expected(n, d) ==
    {Cases[i][3] : i \in {j \in 1..Len(Cases) : Cases[j][1] = n /\ Cases[j][2] = d}}

---------------------------------------------------------------------------
(* A caller of __modti3 *)

\* The values within Near of v that are double-width integers.
Around(v) == {w \in (v - Near)..(v + Near) : w \in ti_int}

TiOperands ==
    Around(0) \cup Around(HighBit) \cup Around(-HighBit)
    \cup Around(TI_MIN) \cup Around(-(TI_MIN + 1))
    \cup {Cases[i][1] : i \in 1..Len(Cases)}
    \cup {Cases[i][2] : i \in 1..Len(Cases)}

InitWide ==
    /\ ta \in TiOperands
    /\ tb \in TiOperands \ {0}
    /\ trem = 0
    /\ wpc = "call"
    /\ IdleDiv /\ IdleTest /\ IdleMcld

Call_modti3 ==
    /\ wpc = "call"
    /\ trem' = modti3(ta, tb)
    /\ wpc' = "done"
    /\ UNCHANGED <<ta, tb, divVars, testVars, mcldVars>>

NextWide == Call_modti3

SpecWide == InitWide /\ [][NextWide]_vars

---------------------------------------------------------------------------
(* Claims about __modti3 *)

\* C5: for every double-width a and nonzero b, __modti3(a, b) is
\* a - trunc(a/b)*b: zero or of the sign of a whatever the sign of b, so
\* that __modti3(a, b) = __modti3(a, -b); also for the most negative a, whose
\* remainder is 0 for the divisors 1, -1, 2, -2 and -2 for 3 and -3; the
\* table of the harness expects these values.
C5_WideRemainder ==
    wpc = "done" =>
        /\ trem = ta - TruncQuot(ta, tb) * tb
        /\ (trem = 0 \/ ((trem < 0) <=> (ta < 0)))
        /\ trem = modti3(ta, NegWrap(tb, TwordBits))
        /\ (ta = TI_MIN /\ tb \in {1, -1, 2, -2}) => trem = 0
        /\ (ta = TI_MIN /\ tb \in {3, -3}) => trem = -2
        /\ Expected(ta, tb) \subseteq {trem}

C5_Witness ==
    wpc = "done" /\ ta = TI_MIN /\ tb = -3 /\ trem = -2 /\ Expected(ta, tb) = {-2}

\* C7 as stated: the dividend {high = 0x8000000000000000, low = 0} leaves
\* the remainder 2 when divided by 3 and by -3.
C7_MinRemainderPositive ==
    (wpc = "done" /\ ta = make_ti(HighBit, 0) /\ tb \in {3, -3}) => trem = 2

\* C7 as amended: the dividend {high = 0x8000000000000000, low = 0} leaves
\* the remainder -2 when divided by 3 and by -3, as the table expects.
C7_MinRemainderNegative ==
    (wpc = "done" /\ ta = make_ti(HighBit, 0) /\ tb \in {3, -3}) =>
        trem = -2 /\ Expected(ta, tb) = {trem}

C7_Witness == wpc = "done" /\ ta = make_ti(HighBit, 0) /\ tb = 3 /\ trem = -2

---------------------------------------------------------------------------
(* modti3_test.c: test__modti3 and main *)

\* What the __modti3 linked into the harness may return for (n, d): the
\* remainder, or any other value of a faulty implementation.
Returned(n, d) == {modti3(n, d)} \cup Around(0)

\* A test__modti3 that reports a mismatch but returns 0.
test__modti3_ReturnsZero(xv, expected) ==
    [print |-> xv # expected, result |-> FALSE]

\* int test__modti3(a, b, expected), given the value xv = __modti3(a, b):
\* whether the diagnostic line is printed, and the value returned.
test__modti3(xv, expected) ==
    [print |-> xv # expected, result |-> xv # expected]

InitTest ==
    /\ idx = 1
    /\ x = 0
    /\ printed = <<>>
    /\ evaluated = <<>>
    /\ exit_status = -1
    /\ hpc = "run"
    /\ IdleDiv /\ IdleWide /\ IdleMcld

\* One `if (test__modti3(a, b, expected)) return 1;` of main.
Main_TestCase ==
    /\ hpc = "run"
    /\ idx <= Len(Cases)
    /\ \E xv \in Returned(Cases[idx][1], Cases[idx][2]) :
         LET t == test__modti3(xv, Cases[idx][3])
         IN  /\ x' = xv
             /\ evaluated' = Append(evaluated, <<idx, xv>>)
             /\ printed' = IF t.print THEN Append(printed, idx) ELSE printed
             /\ IF t.result
                THEN exit_status' = 1 /\ hpc' = "exit" /\ idx' = idx
                ELSE exit_status' = exit_status /\ hpc' = hpc /\ idx' = idx + 1
    /\ UNCHANGED <<divVars, wideVars, mcldVars>>

\* The final `return 0;` of main.
Main_Return0 ==
    /\ hpc = "run"
    /\ idx > Len(Cases)
    /\ exit_status' = 0
    /\ hpc' = "exit"
    /\ UNCHANGED <<idx, x, printed, evaluated, divVars, wideVars, mcldVars>>

NextTest == Main_TestCase \/ Main_Return0

SpecTest == InitTest /\ [][NextTest]_vars

---------------------------------------------------------------------------
(* Claims about the harness *)

\* Case i was evaluated and its result equals its expected value.
Passed(i) == i <= Len(evaluated) /\ evaluated[i][2] = Cases[i][3]

\* C8: the harness evaluates its table in order; it exits with status 0 if
\* and only if every case's result equals its expected value; otherwise it
\* exits with status 1 at the first mismatching case, having printed exactly
\* one diagnostic line, for that case, and without evaluating any later
\* case; a passing case prints nothing.
C8_HarnessExit ==
    /\ \A i \in 1..Len(evaluated) : evaluated[i][1] = i
    /\ hpc = "run" =>
          /\ printed = <<>>
          /\ \A i \in 1..Len(evaluated) : Passed(i)
    /\ hpc = "exit" =>
          /\ exit_status \in {0, 1}
          /\ exit_status = 0 <=> \A i \in 1..Len(Cases) : Passed(i)
          /\ exit_status = 0 => printed = <<>>
          /\ exit_status = 1 =>
                LET k == Len(evaluated)
                IN  /\ k >= 1
                    /\ ~Passed(k)
                    /\ \A i \in 1..(k - 1) : Passed(i)
                    /\ printed = <<k>>

C8_Witness ==
    /\ hpc = "exit" /\ exit_status = 1
    /\ Len(evaluated) = 5 /\ printed = <<5>> /\ x = 2

C8_WitnessAllPass ==
    hpc = "exit" /\ exit_status = 0 /\ Len(evaluated) = Len(Cases)

---------------------------------------------------------------------------
(* tools/mcld/Main.cpp *)

\* Linker::ErrorCode: kSuccess and an error.
ErrorCode == {"kSuccess", "kError"}

\* The command line positions (in increasing order) holding an argument of
\* the given kind: what cl::list::getPosition returns for its elements.
RECURSIVE PositionsFrom(_, _, _)
PositionsFrom(args, kind, p) ==
    IF p > Len(args) THEN <<>>
    ELSE (IF args[p] = kind THEN <<p>> ELSE <<>>) \o PositionsFrom(args, kind, p + 1)

\* OptInputObjectFiles (cl::Positional) and OptNameSpecList (-l), each
\* element named by its command line position.
OptInputObjectFiles == PositionsFrom(argv, "file", 1)
OptNameSpecList     == PositionsFrom(argv, "lib", 1)

\* std::string DetermineOutputFilename(pOutputPath); absolute tells whether
\* llvm::sys::fs::make_absolute succeeds.
DetermineOutputFilename(pOutputPath, absolute) ==
    IF pOutputPath # "" THEN pOutputPath
    ELSE IF Len(OptInputObjectFiles) > 1 THEN "a.out"
    ELSE IF ~absolute THEN ""
    ELSE "/dir/a.out"

\* An object is taken when the namespec comes first on the command line.
TakeObject_Reversed(file_pos, lib_pos) ==
    (file_pos # 0) /\ ((lib_pos = 0) \/ (file_pos > lib_pos))

\* The condition of line 294: the next input to add is the object file.
TakeObject(file_pos, lib_pos) ==
    (file_pos # 0) /\ ((lib_pos = 0) \/ (file_pos < lib_pos))

\* The condition of line 302: the next input to add is the namespec.
TakeNameSpec(file_pos, lib_pos) ==
    (lib_pos # 0) /\ ((file_pos = 0) \/ (lib_pos < file_pos))

\* A LinkFiles that ignores the result of Linker::link.
LinkFiles_IgnoresResult(result) == TRUE

\* bool LinkFiles(pLinker), given the result of pLinker.link().
LinkFiles(result) == result = "kSuccess"

Invoke(op, arg, result) == Append(calls, [op |-> op, arg |-> arg, result |-> result])

InitMcld ==
    /\ argv \in [1..MaxPos -> {"file", "lib", "other"}]
    /\ \E p \in 1..MaxPos : argv[p] = "file"          \* cl::OneOrMore
    /\ OptOutputFilename \in {"", "out"}
    /\ OutputFilename = ""
    /\ file_it = 0 /\ lib_it = 0
    /\ calls = <<>>
    /\ ret = "none"
    /\ mpc = "start"
    /\ IdleDiv /\ IdleWide /\ IdleTest

\* main, lines 329-336.
Main_DetermineOutputFilename ==
    /\ mpc = "start"
    /\ \E absolute \in BOOLEAN :
         /\ OutputFilename' = DetermineOutputFilename(OptOutputFilename, absolute)
         /\ IF OutputFilename' = ""
            THEN ret' = "EXIT_FAILURE" /\ mpc' = "exit"
            ELSE ret' = ret /\ mpc' = "config"
    /\ UNCHANGED <<argv, OptOutputFilename, file_it, lib_it, calls>>
    /\ UNCHANGED <<divVars, wideVars, testVars>>

\* main, lines 338-341, and ConfigLinker.
Main_ConfigLinker ==
    /\ mpc = "config"
    /\ \/ \* new (std::nothrow) returned NULL
          /\ ret' = "EXIT_FAILURE" /\ mpc' = "exit"
          /\ calls' = calls
       \/ \E result \in ErrorCode :
            /\ calls' = Invoke("config", 0, result)
            /\ IF result # "kSuccess"
               THEN ret' = "EXIT_FAILURE" /\ mpc' = "exit"
               ELSE ret' = ret /\ mpc' = "setOutput"
    /\ UNCHANGED <<argv, OptOutputFilename, OutputFilename, file_it, lib_it>>
    /\ UNCHANGED <<divVars, wideVars, testVars>>

\* PrepareInputOutput, lines 262-280.
PrepareInputOutput_SetOutput ==
    /\ mpc = "setOutput"
    /\ \E result \in ErrorCode :
         /\ calls' = Invoke("setOutput", 0, result)
         /\ IF result # "kSuccess"
            THEN ret' = "EXIT_FAILURE" /\ mpc' = "exit"
                 /\ UNCHANGED <<file_it, lib_it>>
            ELSE ret' = ret /\ mpc' = "inputs"
                 /\ file_it' = 1 /\ lib_it' = 1
    /\ UNCHANGED <<argv, OptOutputFilename, OutputFilename>>
    /\ UNCHANGED <<divVars, wideVars, testVars>>

\* PrepareInputOutput, one iteration of the loop of lines 281-313.
PrepareInputOutput_Loop ==
    /\ mpc = "inputs"
    /\ LET lib_pos  == IF lib_it <= Len(OptNameSpecList)
                       THEN OptNameSpecList[lib_it] ELSE 0
           file_pos == IF file_it <= Len(OptInputObjectFiles)
                       THEN OptInputObjectFiles[file_it] ELSE 0
       IN  IF TakeObject(file_pos, lib_pos)
           THEN \E result \in ErrorCode :
                  /\ calls' = Invoke("addObject", file_pos, result)
                  /\ IF result # "kSuccess"
                     THEN ret' = "EXIT_FAILURE" /\ mpc' = "exit"
                          /\ file_it' = file_it
                     ELSE ret' = ret /\ mpc' = mpc /\ file_it' = file_it + 1
                  /\ lib_it' = lib_it
           ELSE IF TakeNameSpec(file_pos, lib_pos)
           THEN \E result \in ErrorCode :
                  /\ calls' = Invoke("addNameSpec", lib_pos, result)
                  /\ IF result # "kSuccess"
                     THEN ret' = "EXIT_FAILURE" /\ mpc' = "exit"
                          /\ lib_it' = lib_it
                     ELSE ret' = ret /\ mpc' = mpc /\ lib_it' = lib_it + 1
                  /\ file_it' = file_it
           ELSE \* we're done with the list
                /\ mpc' = "link"
                /\ UNCHANGED <<calls, ret, file_it, lib_it>>
    /\ UNCHANGED <<argv, OptOutputFilename, OutputFilename>>
    /\ UNCHANGED <<divVars, wideVars, testVars>>

\* main, lines 347-351, and LinkFiles.
Main_LinkFiles ==
    /\ mpc = "link"
    /\ \E result \in ErrorCode :
         /\ calls' = Invoke("link", 0, result)
         /\ ret' = IF LinkFiles(result) THEN "EXIT_SUCCESS" ELSE "EXIT_FAILURE"
    /\ mpc' = "exit"
    /\ UNCHANGED <<argv, OptOutputFilename, OutputFilename, file_it, lib_it>>
    /\ UNCHANGED <<divVars, wideVars, testVars>>

NextMcld ==
    \/ Main_DetermineOutputFilename
    \/ Main_ConfigLinker
    \/ PrepareInputOutput_SetOutput
    \/ PrepareInputOutput_Loop
    \/ Main_LinkFiles

SpecMcld == InitMcld /\ [][NextMcld]_vars

\* main is a sequential program: it takes its next step whenever it has one.
FairSpecMcld == SpecMcld /\ WF_vars(NextMcld)

---------------------------------------------------------------------------
(* Claims about mcld *)

\* The add operation each input position calls for, in command line order.
RECURSIVE InputsFrom(_)
InputsFrom(p) ==
    IF p > Len(argv) THEN <<>>
    ELSE (IF argv[p] = "file" THEN <<[op |-> "addObject", arg |-> p]>>
          ELSE IF argv[p] = "lib" THEN <<[op |-> "addNameSpec", arg |-> p]>>
          ELSE <<>>) \o InputsFrom(p + 1)

\* The Linker operations of a complete run.
FullSequence ==
    <<[op |-> "config", arg |-> 0], [op |-> "setOutput", arg |-> 0]>>
    \o InputsFrom(1) \o <<[op |-> "link", arg |-> 0]>>

\* The operations invoked so far, without their results.
Invoked == [i \in 1..Len(calls) |-> [op |-> calls[i].op, arg |-> calls[i].arg]]

\* The addObject / addNameSpec calls made so far.
Adds == SelectSeq(Invoked, LAMBDA c : c.op \in {"addObject", "addNameSpec"})

AllSucceeded == \A i \in 1..Len(calls) : calls[i].result = "kSuccess"

\* PrepareInputOutput returned true.
Prepared == mpc = "link" \/ (Len(calls) > 0 /\ calls[Len(calls)].op = "link")

C9_Safety ==
    \* the adds made so far are the first inputs of the command line, in
    \* strictly increasing position, objects and namespecs interleaved
    /\ Len(Adds) <= Len(InputsFrom(1))
    /\ Adds = SubSeq(InputsFrom(1), 1, Len(Adds))
    /\ \A i \in 1..(Len(Adds) - 1) : Adds[i].arg < Adds[i + 1].arg
    /\ \A i \in 1..Len(Adds) : Adds[i].arg >= 1
    \* once the loop is left with every call having succeeded, every object
    \* file and every namespec was added exactly once
    /\ Prepared =>
          /\ Adds = InputsFrom(1)
          /\ \A p \in 1..Len(argv) :
                Cardinality({i \in 1..Len(Adds) : Adds[i].arg = p})
                    = IF argv[p] \in {"file", "lib"} THEN 1 ELSE 0

\* C9: in PrepareInputOutput, for object files and namespecs at distinct
\* command line positions >= 1, the merge loop terminates, and with every
\* Linker call succeeding every object file is passed to addObject exactly
\* once and every namespec to addNameSpec exactly once, the add calls being
\* in strictly increasing command line position.
C9_MergeInOrder ==
    /\ []C9_Safety
    /\ (mpc = "inputs") ~> (mpc \in {"link", "exit"})

C9_Witness ==
    /\ mpc = "link"
    /\ argv = <<"lib", "file", "lib", "file">>
    /\ Adds = << [op |-> "addNameSpec", arg |-> 1], [op |-> "addObject", arg |-> 2],
                 [op |-> "addNameSpec", arg |-> 3], [op |-> "addObject", arg |-> 4] >>

\* C10: the Linker operations invoked are a prefix of config, setOutput,
\* the adds, link; the first operation that fails is the last one invoked
\* and main returns EXIT_FAILURE; main returns EXIT_SUCCESS if and only if
\* the whole sequence ran and every operation returned kSuccess; when
\* DetermineOutputFilename returns an empty string main returns
\* EXIT_FAILURE without invoking any Linker operation.
C10_LinkerProtocol ==
    /\ Len(calls) <= Len(FullSequence)
    /\ Invoked = SubSeq(FullSequence, 1, Len(calls))
    /\ \A i \in 1..(Len(calls) - 1) : calls[i].result = "kSuccess"
    /\ ~AllSucceeded => (mpc = "exit" /\ ret = "EXIT_FAILURE")
    /\ (mpc = "exit") <=> (ret \in {"EXIT_SUCCESS", "EXIT_FAILURE"})
    /\ (ret = "EXIT_SUCCESS") <=>
          (mpc = "exit" /\ Len(calls) = Len(FullSequence) /\ AllSucceeded)
    /\ (mpc # "start" /\ OutputFilename = "") =>
          (mpc = "exit" /\ ret = "EXIT_FAILURE" /\ calls = <<>>)

C10_Witness ==
    /\ mpc = "exit" /\ ret = "EXIT_FAILURE"
    /\ Len(calls) = 3
    /\ calls[3].op = "addObject" /\ calls[3].result = "kError"

C10_WitnessSuccess ==
    mpc = "exit" /\ ret = "EXIT_SUCCESS" /\ Len(calls) = Len(FullSequence)

C10_WitnessNoOutput ==
    mpc = "exit" /\ OutputFilename = "" /\ calls = <<>>

===========================================================================
